---------------------------- MODULE Spec2Model ----------------------------
(***************************************************************************)
(* A model of the RFC 5424 syslog parser of rust-syslog-rfc5424            *)
(* (src/src/parser.rs) and of its structured-data container                *)
(* (src/src/structured_data.rs).                                           *)
(*                                                                         *)
(* A Rust &str is modelled as the sequence of its UTF-8 bytes (naturals).  *)
(* Rust indexes from 0 and TLA+ from 1: Slice and From do the shift.       *)
(* parse_message_s is a linear sequence of take_char!/take_item! lines;    *)
(* each line is one action and pc is the position between two lines.       *)
(***************************************************************************)
EXTENDS Integers, Sequences, FiniteSets, TLC

VARIABLES
    input,   \* the &str handed to parse_message
    gen,     \* ghost: how input was built (family and parameters)
    rest,    \* parse_message_s's `rest`: the unconsumed suffix of input
    pc,      \* the line of parse_message_s about to run, or done / err / panic
    loc,     \* the locals of parse_message_s (the fields parsed so far)
    at,      \* ghost: byte offset in input at which each term field started
    ret,     \* what parse_message returned: Pending, Ok(record), Err(e), Panic
    sdc,     \* a BTreeStructuredData used directly through its trait
    hist     \* ghost: the insert_tuple calls made on sdc, oldest first

vars == <<input, gen, rest, pc, loc, at, ret, sdc, hist>>

---------------------------------------------------------------------------
(* Character literals of the source.                                       *)
CH_LT == 60
CH_GT == 62
CH_SP == 32
CH_DASH == 45
CH_T == 84
CH_COLON == 58
CH_DOT == 46
CH_Z == 90
CH_PLUS == 43
CH_LBRACK == 91
CH_RBRACK == 93
CH_EQ == 61
CH_QUOTE == 34
CH_BACKSLASH == 92
CH_0 == 48
CH_9 == 57
PRINT_LO == 33
PRINT_HI == 126

(* Length limits of the source.                                            *)
HOSTNAME_MAX == 255
APPNAME_MAX == 48
PROCID_MAX == 128
MSGID_MAX == 32
SD_ID_MAX == 128
FRAC_MAX == 6
I32_MAX == 2147483647

---------------------------------------------------------------------------
(* Option and Result values.                                               *)
None == <<"None">>
Some(x) == <<"Some", x>>
IsSome(o) == o[1] = "Some"
Unwrap(o) == o[2]

ErrK(kind) == [kind |-> kind, ch |-> 0]
ExpectedTokenErr(c) == [kind |-> "ExpectedTokenErr", ch |-> c]
NoErr == ErrK("none")
PanicK == ErrK("panic")

Ok(v, r) == [ok |-> TRUE, v |-> v, rest |-> r, err |-> NoErr, ovf |-> FALSE]
Err(e) == [ok |-> FALSE, v |-> 0, rest |-> <<>>, err |-> e, ovf |-> FALSE]
Panic == Err(PanicK)

---------------------------------------------------------------------------
(* &str slicing.  A slice whose ends are out of range or not on a          *)
(* character boundary panics; SliceOk is the condition under which it      *)
(* does not.                                                               *)
Slice(s, a, b) == SubSeq(s, a + 1, b)
From(s, a) == SubSeq(s, a + 1, Len(s))
IsCont(b) == b >= 128 /\ b <= 191
IsCharBoundary(s, i) ==
    \/ i = 0
    \/ i = Len(s)
    \/ (i < Len(s) /\ ~IsCont(s[i + 1]))
SliceOk(s, a, b) ==
    a <= b /\ b <= Len(s) /\ IsCharBoundary(s, a) /\ IsCharBoundary(s, b)
CharLen(b) == IF b < 128 THEN 1 ELSE IF b < 224 THEN 2 ELSE IF b < 240 THEN 3 ELSE 4
(* The byte offsets char_indices() yields; a character is stood for by     *)
(* its first byte (an ASCII character is its byte, any other is >= 128).   *)
CharIndices(s) == {i \in 0..(Len(s) - 1) : ~IsCont(s[i + 1])}
SetMin(S) == CHOOSE i \in S : \A j \in S : i <= j
starts_with(s, c) == Len(s) > 0 /\ s[1] = c

IsDigit(c) == c >= CH_0 /\ c <= CH_9
Digits == {c \in 0..255 : IsDigit(c)}
IsPrintable(c) == ~(c < PRINT_LO \/ c > PRINT_HI)

(* take_char!(e, c) *)
take_char(e, c) ==
    IF Len(e) = 0 THEN Err(ErrK("UnexpectedEndOfInput"))
    ELSE IF e[1] = c THEN Ok(c, From(e, 1))
    ELSE Err(ExpectedTokenErr(c))

(* maybe_expect_char!(s, c) *)
maybe_expect_char(s, c) ==
    IF starts_with(s, c) THEN Some(From(s, 1)) ELSE None

(* take_while(input, f, max_chars): the first character index at which f   *)
(* fails or which equals max_chars; ("", None) when there is none.  The    *)
(* closure f is the set of the characters it accepts.                      *)
take_while(s, f, max_chars) ==
    LET stops == {i \in CharIndices(s) : s[i + 1] \notin f \/ i = max_chars}
    IN  IF stops = {} THEN [res |-> <<>>, rest |-> None]
        ELSE LET idx == SetMin(stops)
             IN  [res |-> Slice(s, 0, idx), rest |-> Some(From(s, idx))]

---------------------------------------------------------------------------
(* i32::from_str: an optional sign, then one or more decimal digits,       *)
(* accumulated with checked arithmetic (towards the sign).                 *)
RECURSIVE I32Acc(_, _, _)
I32Acc(digs, acc, neg) ==
    IF Len(digs) = 0 THEN Some(acc)
    ELSE LET c == digs[1]
             d == c - CH_0
         IN  IF ~IsDigit(c) THEN None
             ELSE IF ~neg
                  THEN IF acc > (I32_MAX - d) \div 10 THEN None
                       ELSE I32Acc(Tail(digs), acc * 10 + d, neg)
                  ELSE LET lim == IF d = 0 THEN (I32_MAX \div 10)
                                  ELSE (I32_MAX - (d - 1)) \div 10
                       IN  IF acc < 0 - lim THEN None
                           ELSE I32Acc(Tail(digs), acc * 10 - d, neg)

i32_from_str(s) ==
    IF Len(s) = 0 THEN None
    ELSE IF s[1] = CH_PLUS \/ s[1] = CH_DASH
         THEN IF Len(s) = 1 THEN None
              ELSE I32Acc(Tail(s), 0, s[1] = CH_DASH)
         ELSE I32Acc(s, 0, FALSE)

(* parse_num(s, min_digits, max_digits) *)
parse_num(s, min_digits, max_digits) ==
    LET tw == take_while(s, Digits, max_digits)
    IN  IF ~IsSome(tw.rest) THEN Err(ErrK("UnexpectedEndOfInput"))
        ELSE IF Len(tw.res) < min_digits THEN Err(ErrK("TooFewDigits"))
        ELSE IF Len(tw.res) > max_digits THEN Err(ErrK("TooManyDigits"))
        ELSE LET n == i32_from_str(tw.res)
             IN  IF IsSome(n) THEN Ok(Unwrap(n), Unwrap(tw.rest))
                 ELSE Err(ErrK("IntConversionErr"))

---------------------------------------------------------------------------
(* i32 multiplication as the two builds do it.  a, b are non-negative.     *)
(* MulOverflows: the product leaves i32 (a debug build panics there).      *)
(* MulWrap32: the product modulo 2^32 read as i32 (a release build),       *)
(* computed on 8-bit limbs so that no intermediate value leaves 32 bits.   *)
MulOverflows(a, b) == a > 0 /\ b > I32_MAX \div a
Limb(x, k) == (x \div (IF k = 0 THEN 1 ELSE IF k = 1 THEN 256
                       ELSE IF k = 2 THEN 65536 ELSE 16777216)) % 256
MulWrap32(a, b) ==
    LET c0 == Limb(a, 0) * Limb(b, 0)
        c1 == Limb(a, 0) * Limb(b, 1) + Limb(a, 1) * Limb(b, 0) + c0 \div 256
        c2 == Limb(a, 0) * Limb(b, 2) + Limb(a, 1) * Limb(b, 1)
              + Limb(a, 2) * Limb(b, 0) + c1 \div 256
        c3 == Limb(a, 0) * Limb(b, 3) + Limb(a, 1) * Limb(b, 2)
              + Limb(a, 2) * Limb(b, 1) + Limb(a, 3) * Limb(b, 0) + c2 \div 256
        low == (c3 % 128) * 16777216 + (c2 % 256) * 65536 + (c1 % 256) * 256 + (c0 % 256)
    IN  IF (c3 % 256) >= 128 THEN low + (0 - I32_MAX - 1) ELSE low

(* The loop of parse_decimal: multiplicand *= 10, z - 1 times. *)
RECURSIVE Multiplicand(_)
Multiplicand(z) == IF z <= 1 THEN 1 ELSE 10 * Multiplicand(z - 1)

(* Mutant: digits beyond max_digits skipped, the fraction cut to the first  *)
(* max_digits.                                                             *)
parse_decimal_truncating(d, min_digits, max_digits) ==
    LET r == parse_num(d, min_digits, max_digits)
        more == take_while(r.rest, Digits, Len(d) + 1)
    IN  IF ~r.ok THEN r
        ELSE Ok(r.v * Multiplicand(10 - (Len(d) - Len(r.rest))),
                IF IsSome(more.rest) THEN Unwrap(more.rest) ELSE <<>>)

(* Mutant: the digits consumed counted from 9, one power of ten short. *)
parse_decimal_short(d, min_digits, max_digits) ==
    LET r == parse_num(d, min_digits, max_digits)
    IN  IF ~r.ok THEN r
        ELSE LET z == 9 - (Len(d) - Len(r.rest))
                 multiplicand == Multiplicand(z)
             IN  IF MulOverflows(r.v, multiplicand)
                 THEN [ok |-> TRUE, v |-> MulWrap32(r.v, multiplicand),
                       rest |-> r.rest, err |-> NoErr, ovf |-> TRUE]
                 ELSE Ok(r.v * multiplicand, r.rest)

(* parse_decimal(d, min_digits, max_digits): parse_num, then scale by      *)
(* 10^(9 - digits consumed).  ovf marks a product that leaves i32; v is    *)
(* then the wrapped product.                                               *)
parse_decimal(d, min_digits, max_digits) ==
    LET r == parse_num(d, min_digits, max_digits)
    IN  IF ~r.ok THEN r
        ELSE LET z == 10 - (Len(d) - Len(r.rest))
                 multiplicand == Multiplicand(z)
             IN  IF MulOverflows(r.v, multiplicand)
                 THEN [ok |-> TRUE, v |-> MulWrap32(r.v, multiplicand),
                       rest |-> r.rest, err |-> NoErr, ovf |-> TRUE]
                 ELSE Ok(r.v * multiplicand, r.rest)

---------------------------------------------------------------------------
(* tm.to_timespec() of a UTC Tm (timegm): the fields are taken linearly,   *)
(* out-of-range months, days, hours, minutes and seconds carry over.  The  *)
(* i64 second count days * 86400 + sod is kept as the pair (days, sod),    *)
(* 0 <= sod < 86400.                                                       *)
DaysFromCivil(year, tm_mon, mday) ==
    LET y1 == year + (tm_mon \div 12)
        mon == tm_mon % 12
        y2 == IF mon < 2 THEN y1 - 1 ELSE y1
        era == y2 \div 400
        yoe == y2 - era * 400
        mp == (mon + 10) % 12
        doy == (153 * mp + 2) \div 5 + mday - 1
        doe == yoe * 365 + yoe \div 4 - yoe \div 100 + doy
    IN  era * 146097 + doe - 719468

(* (tm + Duration::minutes(utc_offset_mins)).to_utc().to_timespec() *)
to_timespec(tm, utc_offset_mins) ==
    LET secs == tm.hour * 3600 + tm.min * 60 + tm.sec + utc_offset_mins * 60
    IN  [days |-> DaysFromCivil(tm.year + 1900, tm.mon, tm.mday) + secs \div 86400,
         sod |-> secs % 86400,
         nsec |-> tm.nsec]

(* Mutant: '-' taken as negative and '+' as positive minutes to add. *)
parse_utc_offset_unflipped(r) ==
    IF Len(r) = 0 THEN Ok(0, r)
    ELSE IF r[1] = CH_Z THEN Ok(0, From(r, 1))
    ELSE IF r[1] # CH_DASH /\ r[1] # CH_PLUS THEN Err(ErrK("InvalidUTCOffset"))
    ELSE LET sign == IF r[1] = CH_DASH THEN 0 - 1 ELSE 1
             irest == From(r, 1)
             hours == i32_from_str(Slice(irest, 0, 2))
             minutes == i32_from_str(Slice(irest, 3, 5))
         IN  IF ~SliceOk(irest, 0, 2) THEN Panic
             ELSE IF ~IsSome(hours) THEN Err(ErrK("IntConversionErr"))
             ELSE IF ~SliceOk(irest, 3, 5) THEN Panic
             ELSE IF ~IsSome(minutes) THEN Err(ErrK("IntConversionErr"))
             ELSE Ok(Unwrap(minutes) * sign + Unwrap(hours) * 60 * sign,
                     From(irest, 5))

(* The UTC offset of parse_timestamp, from the character after the         *)
(* seconds (or the fraction): minutes to add, and the new rest.            *)
parse_utc_offset(r) ==
    IF Len(r) = 0 THEN Ok(0, r)
    ELSE IF r[1] = CH_Z THEN Ok(0, From(r, 1))
    ELSE IF r[1] # CH_DASH /\ r[1] # CH_PLUS THEN Err(ErrK("InvalidUTCOffset"))
    ELSE LET sign == IF r[1] = CH_DASH THEN 1 ELSE 0 - 1
             irest == From(r, 1)
             hours == i32_from_str(Slice(irest, 0, 2))
             minutes == i32_from_str(Slice(irest, 3, 5))
         IN  IF ~SliceOk(irest, 0, 2) THEN Panic
             ELSE IF ~IsSome(hours) THEN Err(ErrK("IntConversionErr"))
             ELSE IF ~SliceOk(irest, 3, 5) THEN Panic
             ELSE IF ~IsSome(minutes) THEN Err(ErrK("IntConversionErr"))
             ELSE Ok(Unwrap(minutes) * sign + Unwrap(hours) * 60 * sign,
                     From(irest, 5))

---------------------------------------------------------------------------
(* Mutant: the sentinel taken without looking at the byte after it. *)
parse_term_any_dash(m, min_length, max_length) ==
    IF starts_with(m, CH_DASH)
    THEN Ok(None, From(m, 1))
    ELSE LET stops == {i \in 0..(Len(m) - 1) :
                          ~IsPrintable(m[i + 1]) \/ i >= max_length}
         IN  IF stops = {} THEN Err(ErrK("UnexpectedEndOfInput"))
             ELSE LET idx == SetMin(stops)
                  IN  IF ~IsPrintable(m[idx + 1]) /\ idx < min_length
                      THEN Err(ErrK("TooFewDigits"))
                      ELSE Ok(Some(Slice(m, 0, idx)), From(m, idx))

(* Mutant: the length test off by one (idx > max_length). *)
parse_term_off_by_one(m, min_length, max_length) ==
    IF starts_with(m, CH_DASH) /\ (Len(m) <= 1 \/ m[2] = CH_SP)
    THEN Ok(None, From(m, 1))
    ELSE LET stops == {i \in 0..(Len(m) - 1) :
                          ~IsPrintable(m[i + 1]) \/ i > max_length}
         IN  IF stops = {} THEN Err(ErrK("UnexpectedEndOfInput"))
             ELSE LET idx == SetMin(stops)
                  IN  IF ~IsPrintable(m[idx + 1]) /\ idx < min_length
                      THEN Err(ErrK("TooFewDigits"))
                      ELSE Ok(Some(Slice(m, 0, idx)), From(m, idx))

(* Mutant: a token that reaches max_length rejected as too long. *)
parse_term_too_many(m, min_length, max_length) ==
    IF starts_with(m, CH_DASH) /\ (Len(m) <= 1 \/ m[2] = CH_SP)
    THEN Ok(None, From(m, 1))
    ELSE LET stops == {i \in 0..(Len(m) - 1) :
                          ~IsPrintable(m[i + 1]) \/ i >= max_length}
         IN  IF stops = {} THEN Err(ErrK("UnexpectedEndOfInput"))
             ELSE LET idx == SetMin(stops)
                  IN  IF ~IsPrintable(m[idx + 1]) /\ idx < min_length
                      THEN Err(ErrK("TooFewDigits"))
                      ELSE IF IsPrintable(m[idx + 1]) THEN Err(ErrK("TooManyDigits"))
                      ELSE Ok(Some(Slice(m, 0, idx)), From(m, idx))

(* parse_term(m, min_length, max_length) *)
parse_term(m, min_length, max_length) ==
    IF starts_with(m, CH_DASH) /\ (Len(m) <= 1 \/ m[2] = CH_SP)
    THEN Ok(None, From(m, 1))
    ELSE LET stops == {i \in 0..(Len(m) - 1) :
                          ~IsPrintable(m[i + 1]) \/ i >= max_length}
         IN  IF stops = {} THEN Err(ErrK("UnexpectedEndOfInput"))
             ELSE LET idx == SetMin(stops)
                  IN  IF ~IsPrintable(m[idx + 1]) /\ idx < min_length
                      THEN Err(ErrK("TooFewDigits"))
                      ELSE IF ~IsCharBoundary(m, idx) THEN Panic
                      ELSE Ok(Some(Slice(m, 0, idx)), From(m, idx))

---------------------------------------------------------------------------
(* The structured-data container: a map SD-ID -> (param name -> value),    *)
(* a function whose domain is the set of keys present.                     *)
EmptyMap == [k \in {} |-> 0]
MapPut(m, k, v) == [x \in (DOMAIN m) \cup {k} |-> IF x = k THEN v ELSE m[x]]

(* Mutant: the element replaced by a fresh sub-map holding the one pair. *)
insert_tuple_fresh(sd, sd_id, sd_param_id, sd_param_value) ==
    MapPut(sd, sd_id, MapPut(EmptyMap, sd_param_id, sd_param_value))

(* Mutant: a pair already present kept as it is (first write wins). *)
insert_tuple_keep(sd, sd_id, sd_param_id, sd_param_value) ==
    LET sub_map == IF sd_id \in DOMAIN sd THEN sd[sd_id] ELSE EmptyMap
    IN  IF sd_param_id \in DOMAIN sub_map THEN sd
        ELSE MapPut(sd, sd_id, MapPut(sub_map, sd_param_id, sd_param_value))

(* insert_tuple: entry(sd_id).or_insert_with(default), then insert. *)
insert_tuple(sd, sd_id, sd_param_id, sd_param_value) ==
    LET sub_map == IF sd_id \in DOMAIN sd THEN sd[sd_id] ELSE EmptyMap
    IN  MapPut(sd, sd_id, MapPut(sub_map, sd_param_id, sd_param_value))

(* find_tuple: get(sd_id).and_then(|submap| submap.get(sd_param_id)) *)
find_tuple(sd, sd_id, sd_param_id) ==
    IF sd_id \in DOMAIN sd /\ sd_param_id \in DOMAIN sd[sd_id]
    THEN Some(sd[sd_id][sd_param_id]) ELSE None

(* find_sdid: get(sd_id) *)
find_sdid(sd, sd_id) == IF sd_id \in DOMAIN sd THEN Some(sd[sd_id]) ELSE None

(* len: the number of SD-IDs present *)
sd_len(sd) == Cardinality(DOMAIN sd)

---------------------------------------------------------------------------
(* parse_sd_id(input) *)
IsSdIdChar(c) == c # CH_SP /\ c # CH_EQ /\ c # CH_RBRACK
SdIdChars == {c \in 0..255 : IsSdIdChar(c)}
parse_sd_id(s) ==
    LET tw == take_while(s, SdIdChars, SD_ID_MAX)
    IN  IF IsSome(tw.rest) THEN Ok(tw.res, Unwrap(tw.rest))
        ELSE Err(ErrK("UnexpectedEndOfInput"))

(* The loop of parse_param_value over rest.char_indices(), from byte       *)
(* offset idx with the loop's three variables.                             *)
RECURSIVE ParamValueLoop(_, _, _, _, _)
ParamValueLoop(r, idx, result, saw_any_escapes, escaped) ==
    IF idx >= Len(r) THEN Err(ErrK("UnexpectedEndOfInput"))
    ELSE LET chr == r[idx + 1]
             next == idx + CharLen(chr)
             pushed == IF saw_any_escapes
                       THEN result \o Slice(r, idx, next) ELSE result
         IN  IF escaped
             THEN ParamValueLoop(r, next, pushed, saw_any_escapes, FALSE)
             ELSE IF chr = CH_BACKSLASH
             THEN ParamValueLoop(r, next,
                                 IF ~saw_any_escapes THEN Slice(r, 0, idx) ELSE result,
                                 TRUE, TRUE)
             ELSE IF chr = CH_QUOTE
             THEN Ok(IF saw_any_escapes THEN result ELSE Slice(r, 0, idx),
                     From(r, idx + 1))
             ELSE ParamValueLoop(r, next, pushed, saw_any_escapes, FALSE)

(* Mutant: the borrowed slice returned even when escapes were seen. *)
parse_param_value_borrowed(s) ==
    LET q == take_char(s, CH_QUOTE)
        r == ParamValueLoop(q.rest, 0, <<>>, FALSE, FALSE)
    IN  IF ~q.ok THEN q
        ELSE IF ~r.ok THEN r
        ELSE Ok(Slice(q.rest, 0, Len(q.rest) - Len(r.rest) - 1), r.rest)

(* parse_param_value(input) *)
parse_param_value(s) ==
    LET q == take_char(s, CH_QUOTE)
    IN  IF ~q.ok THEN q ELSE ParamValueLoop(q.rest, 0, <<>>, FALSE, FALSE)

(* for (sd_param_id, sd_param_value) in params { sd.insert_tuple(..) } *)
RECURSIVE InsertParams(_, _, _)
InsertParams(sd, sd_id, params) ==
    IF Len(params) = 0 THEN sd
    ELSE InsertParams(insert_tuple(sd, sd_id, params[1][1], params[1][2]),
                      sd_id, Tail(params))

---------------------------------------------------------------------------
(* The code tables: an enumerant is its name, its discriminant its place.  *)
SyslogSeverity ==
    <<"SEV_EMERG", "SEV_ALERT", "SEV_CRIT", "SEV_ERR",
      "SEV_WARNING", "SEV_NOTICE", "SEV_INFO", "SEV_DEBUG">>
SyslogFacility ==
    <<"LOG_KERN", "LOG_USER", "LOG_MAIL", "LOG_DAEMON", "LOG_AUTH", "LOG_SYSLOG",
      "LOG_LPR", "LOG_NEWS", "LOG_UUCP", "LOG_CRON", "LOG_AUTHPRIV", "LOG_FTP",
      "LOG_NTP", "LOG_AUDIT", "LOG_ALERT", "LOG_CLOCKD", "LOG_LOCAL0", "LOG_LOCAL1",
      "LOG_LOCAL2", "LOG_LOCAL3", "LOG_LOCAL4", "LOG_LOCAL5", "LOG_LOCAL6",
      "LOG_LOCAL7">>
Discriminant(table, e) == (CHOOSE i \in 1..Len(table) : table[i] = e) - 1

(* The arms of the two try_from matches: (integer, enumerant). *)
SeverityArms ==
    {<<0, "SEV_EMERG">>, <<1, "SEV_ALERT">>, <<2, "SEV_CRIT">>,
     <<3, "SEV_ERR">>, <<4, "SEV_WARNING">>, <<5, "SEV_NOTICE">>,
     <<6, "SEV_INFO">>, <<7, "SEV_DEBUG">>}
FacilityArms ==
    {<<0, "LOG_KERN">>, <<1, "LOG_USER">>, <<2, "LOG_MAIL">>,
     <<3, "LOG_DAEMON">>, <<4, "LOG_AUTH">>, <<5, "LOG_SYSLOG">>,
     <<6, "LOG_LPR">>, <<7, "LOG_NEWS">>, <<8, "LOG_UUCP">>,
     <<9, "LOG_CRON">>, <<10, "LOG_AUTHPRIV">>, <<11, "LOG_FTP">>,
     <<12, "LOG_NTP">>, <<13, "LOG_AUDIT">>, <<14, "LOG_ALERT">>,
     <<15, "LOG_CLOCKD">>, <<16, "LOG_LOCAL0">>, <<17, "LOG_LOCAL1">>,
     <<18, "LOG_LOCAL2">>, <<19, "LOG_LOCAL3">>, <<20, "LOG_LOCAL4">>,
     <<21, "LOG_LOCAL5">>, <<22, "LOG_LOCAL6">>, <<23, "LOG_LOCAL7">>}
(* match i { n => enumerant, _ => Err(InvalidInteger) }, then .ok() *)
MatchArm(arms, i) ==
    IF \E a \in arms : a[1] = i
    THEN Some((CHOOSE a \in arms : a[1] = i)[2]) ELSE None

(* SyslogSeverity::from_int / try_from *)
severity_from_int(i) == MatchArm(SeverityArms, i)

(* Mutant: an integer beyond the last facility clamped to it. *)
facility_from_int_clamped(i) ==
    IF i > 23 THEN Some("LOG_LOCAL7") ELSE MatchArm(FacilityArms, i)

(* SyslogFacility::from_int / try_from *)
facility_from_int(i) == MatchArm(FacilityArms, i)

(* The arms of the two as_str matches: (enumerant, name). *)
SeverityStrs ==
    {<<"SEV_EMERG", "emerg">>, <<"SEV_ALERT", "alert">>, <<"SEV_CRIT", "crit">>,
     <<"SEV_ERR", "err">>, <<"SEV_WARNING", "warning">>, <<"SEV_NOTICE", "notice">>,
     <<"SEV_INFO", "info">>, <<"SEV_DEBUG", "debug">>}
FacilityStrs ==
    {<<"LOG_KERN", "kern">>, <<"LOG_USER", "user">>, <<"LOG_MAIL", "mail">>,
     <<"LOG_DAEMON", "daemon">>, <<"LOG_AUTH", "auth">>, <<"LOG_SYSLOG", "syslog">>,
     <<"LOG_LPR", "lpr">>, <<"LOG_NEWS", "news">>, <<"LOG_UUCP", "uucp">>,
     <<"LOG_CRON", "cron">>, <<"LOG_AUTHPRIV", "authpriv">>, <<"LOG_FTP", "ftp">>,
     <<"LOG_NTP", "ntp">>, <<"LOG_AUDIT", "audit">>, <<"LOG_ALERT", "alert">>,
     <<"LOG_CLOCKD", "clockd">>, <<"LOG_LOCAL0", "local0">>, <<"LOG_LOCAL1", "local1">>,
     <<"LOG_LOCAL2", "local2">>, <<"LOG_LOCAL3", "local3">>, <<"LOG_LOCAL4", "local4">>,
     <<"LOG_LOCAL5", "local5">>, <<"LOG_LOCAL6", "local6">>, <<"LOG_LOCAL7", "local7">>}
as_str(strs, e) == (CHOOSE a \in strs : a[1] = e)[2]

(* pri & 0x7 and pri >> 3 on a non-negative i32, bit by bit. *)
Bit(x, k) == (x \div (2 ^ k)) % 2
BitAnd7(x) == Bit(x, 0) + 2 * Bit(x, 1) + 4 * Bit(x, 2)
Shr3(x) == x \div 8

(* Mutant: the mask and the shift applied to the wrong halves. *)
parse_pri_val_swapped(pri) ==
    LET sev == severity_from_int(Shr3(pri))
        fac == facility_from_int(BitAnd7(pri))
    IN  IF ~IsSome(sev) THEN Err(ErrK("BadSeverityInPri"))
        ELSE IF ~IsSome(fac) THEN Err(ErrK("BadFacilityInPri"))
        ELSE Ok(<<Unwrap(sev), Unwrap(fac)>>, <<>>)

(* Mutant: the facility's failure reported with the severity's error. *)
parse_pri_val_sev_err(pri) ==
    LET sev == severity_from_int(BitAnd7(pri))
        fac == facility_from_int(Shr3(pri))
    IN  IF ~IsSome(sev) THEN Err(ErrK("BadSeverityInPri"))
        ELSE IF ~IsSome(fac) THEN Err(ErrK("BadSeverityInPri"))
        ELSE Ok(<<Unwrap(sev), Unwrap(fac)>>, <<>>)

(* parse_pri_val(pri) *)
parse_pri_val(pri) ==
    LET sev == severity_from_int(BitAnd7(pri))
        fac == facility_from_int(Shr3(pri))
    IN  IF ~IsSome(sev) THEN Err(ErrK("BadSeverityInPri"))
        ELSE IF ~IsSome(fac) THEN Err(ErrK("BadFacilityInPri"))
        ELSE Ok(<<Unwrap(sev), Unwrap(fac)>>, <<>>)

---------------------------------------------------------------------------
(* parse_message_s and the sub-parsers it calls (parse_timestamp,          *)
(* parse_sd, parse_sde, parse_sd_params), one action per line of code; pc  *)
(* is the line about to run and loc holds the locals of the frames.        *)
Fields == {"hostname", "appname", "procid", "msgid"}

(* time::empty_tm() *)
EmptyTm == [year |-> 0, mon |-> 0, mday |-> 0, hour |-> 0, min |-> 0, sec |-> 0,
            nsec |-> 0]

Loc0 ==
    [prival |-> 0, sev |-> "", fac |-> "", version |-> 0,
     tm |-> EmptyTm, event_time |-> None,
     hostname |-> None, appname |-> None, procid_r |-> None, procid |-> None,
     msgid |-> None,
     sd |-> EmptyMap, sd_id |-> <<>>, params |-> <<>>, param_name |-> <<>>]

(* What the two builds make of a step whose arithmetic overflowed: the     *)
(* debug build panics, the release build goes on with the wrapped value.   *)
Builds(r) == IF r.ovf THEN {Panic, r} ELSE {r}

(* Mutant: an error noted and the parse carried on with the next line. *)
Advance_recover(r, to, loc2) ==
    IF r.ok
    THEN /\ pc' = to
         /\ rest' = r.rest
         /\ loc' = loc2
         /\ ret' = ret
    ELSE /\ pc' = to
         /\ ret' = <<"Err", r.err>>
         /\ UNCHANGED <<rest, loc>>

(* The `?` of take_item! and the returns of take_char!: on Ok go to the    *)
(* next line with the new rest and locals, otherwise return the error.     *)
Advance(r, to, loc2) ==
    IF r.ok
    THEN /\ pc' = to
         /\ rest' = r.rest
         /\ loc' = loc2
         /\ ret' = ret
    ELSE /\ pc' = IF r.err = PanicK THEN "panic" ELSE "err"
         /\ ret' = IF r.err = PanicK THEN <<"Panic">> ELSE <<"Err", r.err>>
         /\ UNCHANGED <<rest, loc>>

TakeChar(from, c, to) ==
    /\ pc = from
    /\ Advance(take_char(rest, c), to, loc)
    /\ UNCHANGED <<input, gen, at, sdc, hist>>

TakeLt == TakeChar("lt", CH_LT, "prival")

ParsePrival ==
    /\ pc = "prival"
    /\ \E r \in {parse_num(rest, 1, 3)} :
          Advance(r, "gt", [loc EXCEPT !.prival = r.v])
    /\ UNCHANGED <<input, gen, at, sdc, hist>>

TakeGt == TakeChar("gt", CH_GT, "pri_val")

ParsePriVal ==
    /\ pc = "pri_val"
    /\ \E r \in {parse_pri_val(loc.prival)} :
          Advance([r EXCEPT !.rest = rest], "version",
                  [loc EXCEPT !.sev = r.v[1], !.fac = r.v[2]])
    /\ UNCHANGED <<input, gen, at, sdc, hist>>

ParseVersion ==
    /\ pc = "version"
    /\ \E r \in {parse_num(rest, 1, 2)} :
          Advance(r, "sp_version", [loc EXCEPT !.version = r.v])
    /\ UNCHANGED <<input, gen, at, sdc, hist>>

(* Mutant: the space after the version optional, as the one before the     *)
(* message body is.                                                        *)
TakeSpVersion_optional ==
    /\ pc = "sp_version"
    /\ rest' = IF IsSome(maybe_expect_char(rest, CH_SP))
               THEN Unwrap(maybe_expect_char(rest, CH_SP)) ELSE rest
    /\ pc' = "timestamp"
    /\ UNCHANGED <<input, gen, loc, at, ret, sdc, hist>>

TakeSpVersion == TakeChar("sp_version", CH_SP, "timestamp")

(* parse_timestamp *)
TsStart ==
    /\ pc = "timestamp"
    /\ IF starts_with(rest, CH_DASH)
       THEN /\ rest' = From(rest, 1)
            /\ loc' = [loc EXCEPT !.event_time = None]
            /\ pc' = "sp_timestamp"
       ELSE /\ rest' = rest
            /\ loc' = [loc EXCEPT !.tm = EmptyTm]
            /\ pc' = "ts_year"
    /\ UNCHANGED <<input, gen, at, ret, sdc, hist>>

TsNum(from, digits, field, adjust, to) ==
    /\ pc = from
    /\ \E r \in {parse_num(rest, digits, digits)} :
          Advance(r, to, [loc EXCEPT !.tm[field] = r.v - adjust])
    /\ UNCHANGED <<input, gen, at, sdc, hist>>

TsYear == TsNum("ts_year", 4, "year", 1900, "ts_dash1")
TsDash1 == TakeChar("ts_dash1", CH_DASH, "ts_mon")
TsMon == TsNum("ts_mon", 2, "mon", 1, "ts_dash2")
TsDash2 == TakeChar("ts_dash2", CH_DASH, "ts_mday")
TsMday == TsNum("ts_mday", 2, "mday", 0, "ts_t")
TsT == TakeChar("ts_t", CH_T, "ts_hour")
TsHour == TsNum("ts_hour", 2, "hour", 0, "ts_colon1")
TsColon1 == TakeChar("ts_colon1", CH_COLON, "ts_min")
TsMin == TsNum("ts_min", 2, "min", 0, "ts_colon2")
TsColon2 == TakeChar("ts_colon2", CH_COLON, "ts_sec")
TsSec == TsNum("ts_sec", 2, "sec", 0, "ts_frac")

TsFrac ==
    /\ pc = "ts_frac"
    /\ IF starts_with(rest, CH_DOT)
       THEN \E r \in Builds(parse_decimal(From(rest, 1), 1, FRAC_MAX)) :
               Advance(r, "ts_off", [loc EXCEPT !.tm.nsec = r.v])
       ELSE /\ pc' = "ts_off"
            /\ UNCHANGED <<rest, loc, ret>>
    /\ UNCHANGED <<input, gen, at, sdc, hist>>

(* The offset, then tm + Duration::minutes(..), whose Timespec::new        *)
(* asserts 0 <= nsec < 1_000_000_000.                                      *)
TsOffset ==
    /\ pc = "ts_off"
    /\ \E r \in {parse_utc_offset(rest)} :
          Advance(IF r.ok /\ (loc.tm.nsec < 0 \/ loc.tm.nsec >= 1000000000)
                  THEN Panic ELSE r,
                  "sp_timestamp",
                  [loc EXCEPT !.event_time = Some(to_timespec(loc.tm, r.v))])
    /\ UNCHANGED <<input, gen, at, sdc, hist>>

TakeSpTimestamp == TakeChar("sp_timestamp", CH_SP, "hostname")

ParseTerm(from, field, max_length, to) ==
    /\ pc = from
    /\ \E r \in {parse_term(rest, 1, max_length)} :
          Advance(r, to, [loc EXCEPT ![field] = r.v])
    /\ at' = [at EXCEPT ![field] = Len(input) - Len(rest)]
    /\ UNCHANGED <<input, gen, sdc, hist>>

ParseHostname == ParseTerm("hostname", "hostname", HOSTNAME_MAX, "sp_hostname")

TakeSpHostname == TakeChar("sp_hostname", CH_SP, "appname")

ParseAppname == ParseTerm("appname", "appname", APPNAME_MAX, "sp_appname")

TakeSpAppname == TakeChar("sp_appname", CH_SP, "procid")

(* ProcId::PID(n) when i32::from_str takes the token, else ProcId::Name(s) *)
ProcIdOf(procid_r) ==
    IF ~IsSome(procid_r) THEN None
    ELSE IF IsSome(i32_from_str(Unwrap(procid_r)))
    THEN Some(<<"PID", Unwrap(i32_from_str(Unwrap(procid_r)))>>)
    ELSE Some(<<"Name", Unwrap(procid_r)>>)

ParseProcid ==
    /\ pc = "procid"
    /\ \E r \in {parse_term(rest, 1, PROCID_MAX)} :
          Advance(r, "sp_procid",
                  [loc EXCEPT !.procid_r = r.v, !.procid = ProcIdOf(r.v)])
    /\ at' = [at EXCEPT !["procid"] = Len(input) - Len(rest)]
    /\ UNCHANGED <<input, gen, sdc, hist>>

TakeSpProcid == TakeChar("sp_procid", CH_SP, "msgid")

ParseMsgid == ParseTerm("msgid", "msgid", MSGID_MAX, "sp_msgid")

TakeSpMsgid == TakeChar("sp_msgid", CH_SP, "sd")

(* parse_sd: the sentinel, or the while loop's first test *)
SdStart ==
    /\ pc = "sd"
    /\ loc' = [loc EXCEPT !.sd = EmptyMap]
    /\ IF starts_with(rest, CH_DASH)
       THEN rest' = From(rest, 1) /\ pc' = "msg"
       ELSE rest' = rest /\ pc' = IF Len(rest) = 0 THEN "msg" ELSE "sde_open"
    /\ UNCHANGED <<input, gen, at, ret, sdc, hist>>

(* parse_sde *)
SdeOpen == TakeChar("sde_open", CH_LBRACK, "sde_id")

SdeId ==
    /\ pc = "sde_id"
    /\ \E r \in {parse_sd_id(rest)} :
          Advance(r, "sdp", [loc EXCEPT !.sd_id = r.v, !.params = <<>>])
    /\ UNCHANGED <<input, gen, at, sdc, hist>>

(* parse_sd_params: the loop *)
SdParam ==
    /\ pc = "sdp"
    /\ IF IsSome(maybe_expect_char(rest, CH_SP))
       THEN rest' = Unwrap(maybe_expect_char(rest, CH_SP)) /\ pc' = "sdp_name"
       ELSE rest' = rest /\ pc' = "sde_close"
    /\ UNCHANGED <<input, gen, loc, at, ret, sdc, hist>>

SdParamName ==
    /\ pc = "sdp_name"
    /\ \E r \in {parse_sd_id(rest)} :
          Advance(r, "sdp_eq", [loc EXCEPT !.param_name = r.v])
    /\ UNCHANGED <<input, gen, at, sdc, hist>>

SdParamEq == TakeChar("sdp_eq", CH_EQ, "sdp_value")

SdParamValue ==
    /\ pc = "sdp_value"
    /\ \E r \in {parse_param_value(rest)} :
          Advance(r, "sdp",
                  [loc EXCEPT !.params = Append(@, <<loc.param_name, r.v>>)])
    /\ UNCHANGED <<input, gen, at, sdc, hist>>

(* Mutant: the element's entry created before its parameters are inserted. *)
SdeClose_with_entry ==
    /\ pc = "sde_close"
    /\ \E r \in {take_char(rest, CH_RBRACK)} :
          Advance(r,
                  IF starts_with(r.rest, CH_SP) \/ Len(r.rest) = 0
                  THEN "msg" ELSE "sde_open",
                  [loc EXCEPT !.sd =
                      InsertParams(IF loc.sd_id \in DOMAIN @ THEN @
                                   ELSE MapPut(@, loc.sd_id, EmptyMap),
                                   loc.sd_id, loc.params)])
    /\ UNCHANGED <<input, gen, at, sdc, hist>>

(* The "]" of parse_sde, then in parse_sd the inserts, the break on a      *)
(* space and the loop's test.                                              *)
SdeClose ==
    /\ pc = "sde_close"
    /\ \E r \in {take_char(rest, CH_RBRACK)} :
          Advance(r,
                  IF starts_with(r.rest, CH_SP) \/ Len(r.rest) = 0
                  THEN "msg" ELSE "sde_open",
                  [loc EXCEPT !.sd = InsertParams(@, loc.sd_id, loc.params)])
    /\ UNCHANGED <<input, gen, at, sdc, hist>>

(* Mutant: a missing timestamp reported with zero nanoseconds. *)
SyslogMessage_zero_nanos(l, msg) ==
    [severity |-> l.sev, facility |-> l.fac, version |-> l.version,
     timestamp |-> IF IsSome(l.event_time)
                   THEN Some([days |-> Unwrap(l.event_time).days,
                              sod |-> Unwrap(l.event_time).sod])
                   ELSE None,
     timestamp_nanos |-> IF IsSome(l.event_time)
                         THEN Some(Unwrap(l.event_time).nsec) ELSE Some(0),
     hostname |-> l.hostname, appname |-> l.appname, procid |-> l.procid,
     msgid |-> l.msgid, sd |-> l.sd, msg |-> msg]

(* The optional space, the message body and the returned record. *)
SyslogMessage(l, msg) ==
    [severity |-> l.sev, facility |-> l.fac, version |-> l.version,
     timestamp |-> IF IsSome(l.event_time)
                   THEN Some([days |-> Unwrap(l.event_time).days,
                              sod |-> Unwrap(l.event_time).sod])
                   ELSE None,
     timestamp_nanos |-> IF IsSome(l.event_time)
                         THEN Some(Unwrap(l.event_time).nsec) ELSE None,
     hostname |-> l.hostname, appname |-> l.appname, procid |-> l.procid,
     msgid |-> l.msgid, sd |-> l.sd, msg |-> msg]

(* Mutant: every leading space of the message body removed. *)
ParseMsg_trim ==
    /\ pc = "msg"
    /\ \E rest2 \in {From(rest, SetMin({i \in 0..Len(rest) :
                                          i = Len(rest) \/ rest[i + 1] # CH_SP}))} :
          /\ rest' = rest2
          /\ ret' = <<"Ok", SyslogMessage(loc, rest2)>>
    /\ pc' = "done"
    /\ UNCHANGED <<input, gen, loc, at, sdc, hist>>

ParseMsg ==
    /\ pc = "msg"
    /\ \E rest2 \in {IF IsSome(maybe_expect_char(rest, CH_SP))
                     THEN Unwrap(maybe_expect_char(rest, CH_SP)) ELSE rest} :
          /\ rest' = rest2
          /\ ret' = <<"Ok", SyslogMessage(loc, rest2)>>
    /\ pc' = "done"
    /\ UNCHANGED <<input, gen, loc, at, sdc, hist>>

Next ==
    \/ TakeLt \/ ParsePrival \/ TakeGt \/ ParsePriVal
    \/ ParseVersion \/ TakeSpVersion
    \/ TsStart \/ TsYear \/ TsDash1 \/ TsMon \/ TsDash2 \/ TsMday \/ TsT
    \/ TsHour \/ TsColon1 \/ TsMin \/ TsColon2 \/ TsSec \/ TsFrac \/ TsOffset
    \/ TakeSpTimestamp
    \/ ParseHostname \/ TakeSpHostname
    \/ ParseAppname \/ TakeSpAppname
    \/ ParseProcid \/ TakeSpProcid
    \/ ParseMsgid \/ TakeSpMsgid
    \/ SdStart \/ SdeOpen \/ SdeId \/ SdParam \/ SdParamName \/ SdParamEq
    \/ SdParamValue \/ SdeClose
    \/ ParseMsg

(* The state in which parse_message(inp) is called. *)
Call(g, inp) ==
    /\ input = inp
    /\ gen = g
    /\ rest = inp
    /\ pc = "lt"
    /\ loc = Loc0
    /\ at = [f \in Fields |-> 0 - 1]
    /\ ret = <<"Pending">>
    /\ sdc = EmptyMap
    /\ hist = <<>>

---------------------------------------------------------------------------
(* The inputs.  Each family builds its messages from a few parameters,     *)
(* kept in gen.                                                            *)
MaxPri == 1023
MaxTermLen == 2
LenSlack == 1
MaxElems == 2
MaxParams == 2
MaxPVLen == 4
MaxFracLen == 7
MaxInserts == 3
MaxOffHour == 14
MaxVerLen == 3
MaxConvInt == 40
MaxOffTextLen == 5
MaxNumLen == 5

Strs(A, n) == UNION {[1..k -> A] : k \in 0..n}

RECURSIVE Dec(_)
Dec(n) == IF n < 10 THEN <<CH_0 + n>> ELSE Dec(n \div 10) \o <<CH_0 + (n % 10)>>

Repeat(c, n) == [i \in 1..n |-> c]

RECURSIVE Concat(_)
Concat(ss) == IF Len(ss) = 0 THEN <<>> ELSE ss[1] \o Concat(Tail(ss))

(* "<p>1 - - - - - -": test_simple, test_bad_pri *)
PriVals == (0..MaxPri) \cup {4096}
PriInput(p) ==
    <<CH_LT>> \o Dec(p) \o <<62, 49, 32, 45, 32, 45, 32, 45, 32, 45, 32, 45, 32, 45>>

(* "<1>1 - h a p m -" with the four term fields h, a, p, m *)
TermAlphabet == {CH_DASH, CH_PLUS, 97, 55, 9}
TermSmall == {<<CH_DASH>>, <<CH_DASH, 97>>, <<97, 55>>}
Dashes == [i \in 1..4 |-> <<CH_DASH>>]
TermTuples ==
    [1..4 -> TermSmall]
    \cup {[Dashes EXCEPT ![i] = t] : i \in 1..4, t \in Strs(TermAlphabet, MaxTermLen)}
TermInput(f) ==
    <<60, 49, 62, 49, 32, 45, 32>>
    \o f[1] \o <<CH_SP>> \o f[2] \o <<CH_SP>> \o f[3] \o <<CH_SP>> \o f[4]
    \o <<32, 45>>

(* Process-id tokens: 10391 (test_complex), 007, 2147483647, 2147483648,   *)
(* 99999999999, +123, -5, 12a, + and 1-2.                                  *)
ProcidTokens ==
    {<<49, 48, 51, 57, 49>>,
     <<48, 48, 55>>,
     <<50, 49, 52, 55, 52, 56, 51, 54, 52, 55>>,
     <<50, 49, 52, 55, 52, 56, 51, 54, 52, 56>>,
     <<57, 57, 57, 57, 57, 57, 57, 57, 57, 57, 57>>,
     <<43, 49, 50, 51>>,
     <<45, 53>>,
     <<49, 50, 97>>,
     <<43>>,
     <<49, 45, 50>>}

(* One term field of lead \o n-1 times "a", around the field's limit *)
FieldMax == <<HOSTNAME_MAX, APPNAME_MAX, PROCID_MAX, MSGID_MAX>>
LongTerm(lead, n) == <<lead>> \o Repeat(97, n - 1)

(* "<1>1 - - - - - [id k="v" ...]... m": every element is an SD-ID and a   *)
(* list of parameter names; the value of a parameter is its place          *)
(* (element number, parameter number), so that no two values are equal.    *)
SdIds == {<<97>>, <<98>>}
SdNames == {<<107>>, <<106>>}
SdValues == {<<120>>, <<121>>}
ElemChoices == SdIds \X Strs(SdNames, MaxParams)
ElemLists == UNION {[1..n -> ElemChoices] : n \in 1..MaxElems}
ValueAt(e, p) == <<CH_0 + e, CH_0 + p>>
RenderParam(e, p, name) ==
    <<CH_SP>> \o name \o <<CH_EQ, CH_QUOTE>> \o ValueAt(e, p) \o <<CH_QUOTE>>
RenderElem(e, el) ==
    <<CH_LBRACK>> \o el[1]
    \o Concat([p \in 1..Len(el[2]) |-> RenderParam(e, p, el[2][p])])
    \o <<CH_RBRACK>>
SdInput(elems) ==
    <<60, 49, 62, 49, 32, 45, 32, 45, 32, 45, 32, 45, 32, 45, 32>>
    \o Concat([e \in 1..Len(elems) |-> RenderElem(e, elems[e])])
    \o <<32, 109>>

(* "<1>1 - - - - - [ID] m" and "<1>1 - - - - - [ID k="v"] m" where ID is n   *)
(* characters, the first of them a letter or a tab: n around 0, around 32  *)
(* and around the max_chars of parse_sd_id.                                *)
SdIdLens ==
    (0..LenSlack) \cup ((32 - LenSlack)..(32 + LenSlack))
    \cup ((SD_ID_MAX - LenSlack)..(SD_ID_MAX + LenSlack))
SdIdText(lead, n) == IF n = 0 THEN <<>> ELSE LongTerm(lead, n)
SdIdInput(lead, n, withParam) ==
    <<60, 49, 62, 49, 32, 45, 32, 45, 32, 45, 32, 45, 32, 45, 32>>
    \o <<CH_LBRACK>> \o SdIdText(lead, n)
    \o (IF withParam THEN RenderParam(1, 1, <<107>>) ELSE <<>>)
    \o <<CH_RBRACK, 32, 109>>

(* "<1>1 - - - - - [i k="w" j="b"] m" with the raw text w *)
PVAlphabet == {97, CH_BACKSLASH, CH_QUOTE}
PVTail == <<34, 32, 106, 61, 34, 98, 34, 93, 32, 109>>
PVInput(w) ==
    <<60, 49, 62, 49, 32, 45, 32, 45, 32, 45, 32, 45, 32, 45, 32,
      91, 105, 32, 107, 61, 34>> \o w \o PVTail

(* "<1>1 1985-04-12T23:20:50[.frac]Z host - - - -": test_example_timestamps *)
FracDigits == {48, 51, 57}
FracInput(dot, frac) ==
    <<60, 49, 62, 49, 32, 49, 57, 56, 53, 45, 48, 52, 45, 49, 50, 84,
      50, 51, 58, 50, 48, 58, 53, 48>>
    \o (IF dot THEN <<CH_DOT>> ELSE <<>>) \o frac
    \o <<90, 32, 104, 111, 115, 116, 32, 45, 32, 45, 32, 45, 32, 45>>

(* "<1>1 <wall clock><sign>HH:MM - - - - -": test_with_time_offset_nonzero. *)
(* A wall clock is its text and the timestamp the tests give for it        *)
(* written with Z, as days since 1970-01-01 and second of the day.         *)
WallClocks == <<
    \* 2015-01-01T00:00:00, 1420070400
      [text |-> <<50, 48, 49, 53, 45, 48, 49, 45, 48, 49, 84, 48, 48, 58, 48, 48, 58, 48, 48>>,
       days |-> 16436, sod |-> 0],
    \* 2015-01-01T18:50:00, 1420138200
      [text |-> <<50, 48, 49, 53, 45, 48, 49, 45, 48, 49, 84, 49, 56, 58, 53, 48, 58, 48, 48>>,
       days |-> 16436, sod |-> 67800],
    \* 1985-04-12T23:20:50, 482196050
      [text |-> <<49, 57, 56, 53, 45, 48, 52, 45, 49, 50, 84, 50, 51, 58, 50, 48, 58, 53, 48>>,
       days |-> 5580, sod |-> 84050],
    \* 2019-01-20T00:46:39, 1547945199
      [text |-> <<50, 48, 49, 57, 45, 48, 49, 45, 50, 48, 84, 48, 48, 58, 52, 54, 58, 51, 57>>,
       days |-> 17916, sod |-> 2799],
    \* 2018-05-14T08:23:01, 1526286181
      [text |-> <<50, 48, 49, 56, 45, 48, 53, 45, 49, 52, 84, 48, 56, 58, 50, 51, 58, 48, 49>>,
       days |-> 17665, sod |-> 30181] >>
OffMinutes == {0, 30, 45}
Dec2(n) == <<CH_0 + (n \div 10), CH_0 + (n % 10)>>
OffInput(w, sign, hh, mm) ==
    <<60, 49, 62, 49, 32>> \o WallClocks[w].text
    \o <<sign>> \o Dec2(hh) \o <<CH_COLON>> \o Dec2(mm)
    \o <<32, 45, 32, 45, 32, 45, 32, 45, 32, 45>>

(* "<1>1 2015-01-01T00:00:00", a sign, any text where the offset's hours,  *)
(* ':' and minutes belong, and " - - - - -".                               *)
OffTextAlphabet == {48, 53, CH_COLON, CH_DASH}
OffTextInput(sign, t) ==
    <<60, 49, 62, 49, 32>> \o WallClocks[1].text \o <<sign>> \o t
    \o <<32, 45, 32, 45, 32, 45, 32, 45, 32, 45>>

(* "<134>v - - - - - -" with the text v where the version and its space    *)
(* belong, and the RFC 3164 message of test_bad_match:                     *)
(* <134>Feb 18 20:53:31 haproxy[376]: I am a message                       *)
VerAlphabet == {49, 48, CH_SP, 70}
VerInput(v) ==
    <<60, 49, 51, 52, 62>> \o v \o <<45, 32, 45, 32, 45, 32, 45, 32, 45, 32, 45>>
Rfc3164Message == <<
      60, 49, 51, 52, 62, 70, 101, 98, 32, 49, 56, 32, 50, 48, 58, 53,
      51, 58, 51, 49, 32, 104, 97, 112, 114, 111, 120, 121, 91, 51, 55, 54,
      93, 58, 32, 73, 32, 97, 109, 32, 97, 32, 109, 101, 115, 115, 97, 103,
      101 >>

(* A message as the text of its eight steps (PRI, version, timestamp,      *)
(* hostname, appname, procid, msgid, structured data) and " x", each step  *)
(* well-formed or malformed.  A malformed text comes with the error that   *)
(* step returns for it and the offset in the text at which it fails.       *)
Steps == <<
    \* PRI
      [good |-> <<60, 49, 62>>,
       bad |-> <<60, 57, 57, 57, 62>>,
       err |-> ErrK("BadFacilityInPri"), off |-> 5],
    \* version
      [good |-> <<49, 32>>,
       bad |-> <<49, 50, 51, 32>>,
       err |-> ExpectedTokenErr(CH_SP), off |-> 2],
    \* timestamp
      [good |-> <<50, 48, 49, 53, 45, 48, 49, 45, 48, 49, 84, 48, 48, 58, 48, 48, 58, 48, 48, 90, 32>>,
       bad |-> <<50, 48, 49, 53, 45, 48, 49, 45, 48, 49, 88, 48, 48, 58, 48, 48, 58, 48, 48, 90, 32>>,
       err |-> ExpectedTokenErr(CH_T), off |-> 10],
    \* hostname
      [good |-> <<104, 32>>,
       bad |-> <<32>>,
       err |-> ErrK("TooFewDigits"), off |-> 0],
    \* appname
      [good |-> <<97, 32>>,
       bad |-> <<97, 9, 98, 32>>,
       err |-> ExpectedTokenErr(CH_SP), off |-> 1],
    \* procid
      [good |-> <<55, 32>>,
       bad |-> <<9, 32>>,
       err |-> ErrK("TooFewDigits"), off |-> 0],
    \* msgid
      [good |-> <<109, 32>>,
       bad |-> Repeat(109, MSGID_MAX + 1) \o <<CH_SP>>,
       err |-> ExpectedTokenErr(CH_SP), off |-> 32],
    \* structured data
      [good |-> <<91, 105, 32, 107, 61, 34, 118, 34, 93>>,
       bad |-> <<91, 105, 32, 107, 61, 118, 93>>,
       err |-> ExpectedTokenErr(CH_QUOTE), off |-> 5] >>
StepsInput(F) ==
    Concat([i \in 1..Len(Steps) |-> IF i \in F THEN Steps[i].bad ELSE Steps[i].good])
    \o <<32, 120>>

(* Messages of the tests, cut at every length or with one byte replaced. *)
BaseMessages == <<
    \* <1>1 - - - - - -
      <<60, 49, 62, 49, 32, 45, 32, 45, 32, 45, 32, 45, 32, 45, 32, 45>>,
    \* <1>1 2015-01-01T18:50:00-04:00 - - - - -
      <<60, 49, 62, 49, 32, 50, 48, 49, 53, 45, 48, 49, 45, 48, 49, 84,
        49, 56, 58, 53, 48, 58, 48, 48, 45, 48, 52, 58, 48, 48, 32, 45,
        32, 45, 32, 45, 32, 45, 32, 45>>,
    \* <1>1 1985-04-12T23:20:50.52Z host - - - -
      <<60, 49, 62, 49, 32, 49, 57, 56, 53, 45, 48, 52, 45, 49, 50, 84,
        50, 51, 58, 50, 48, 58, 53, 48, 46, 53, 50, 90, 32, 104, 111, 115,
        116, 32, 45, 32, 45, 32, 45, 32, 45>>,
    \* <78>1 2016-01-15T00:04:01+00:00 host1 CROND 10391 - [meta sequenceId="29"] some_message
      <<60, 55, 56, 62, 49, 32, 50, 48, 49, 54, 45, 48, 49, 45, 49, 53,
        84, 48, 48, 58, 48, 52, 58, 48, 49, 43, 48, 48, 58, 48, 48, 32,
        104, 111, 115, 116, 49, 32, 67, 82, 79, 78, 68, 32, 49, 48, 51,
        57, 49, 32, 45, 32, 91, 109, 101, 116, 97, 32, 115, 101, 113, 117,
        101, 110, 99, 101, 73, 100, 61, 34, 50, 57, 34, 93, 32, 115, 111,
        109, 101, 95, 109, 101, 115, 115, 97, 103, 101>>,
    \* <1>1 - - - - - [meta key="val\"ue"] message
      <<60, 49, 62, 49, 32, 45, 32, 45, 32, 45, 32, 45, 32, 45, 32, 91,
        109, 101, 116, 97, 32, 107, 101, 121, 61, 34, 118, 97, 108, 92,
        34, 117, 101, 34, 93, 32, 109, 101, 115, 115, 97, 103, 101>>,
    \* <39>1 2018-05-15T20:56:58+00:00 -web1west -app - - [m s="2"][m]
      <<60, 51, 57, 62, 49, 32, 50, 48, 49, 56, 45, 48, 53, 45, 49, 53,
        84, 50, 48, 58, 53, 54, 58, 53, 56, 43, 48, 48, 58, 48, 48, 32,
        45, 119, 101, 98, 49, 119, 101, 115, 116, 32, 45, 97, 112, 112,
        32, 45, 32, 45, 32, 91, 109, 32, 115, 61, 34, 50, 34, 93, 91, 109,
        93>> >>
(* What replaces the byte: nothing, an ASCII character, or the two- and    *)
(* three-byte characters U+00E9 and U+20AC.                                *)
MutSeqs ==
    {<<>>, <<CH_SP>>, <<CH_DASH>>, <<CH_0>>, <<120>>, <<CH_QUOTE>>,
     <<195, 169>>, <<226, 130, 172>>}
MutInput(b, i, m) ==
    SubSeq(BaseMessages[b], 1, i - 1) \o m
    \o SubSeq(BaseMessages[b], i + 1, Len(BaseMessages[b]))

InitPri == \E p \in PriVals : Call([fam |-> "pri", p |-> p], PriInput(p))
InitTerm == \E f \in TermTuples : Call([fam |-> "term", f |-> f], TermInput(f))
InitLong ==
    \E i \in 1..4, lead \in {97, CH_DASH} :
        \E n \in (FieldMax[i] - LenSlack)..(FieldMax[i] + LenSlack) :
            Call([fam |-> "long", i |-> i, n |-> n, lead |-> lead],
                 TermInput([Dashes EXCEPT ![i] = LongTerm(lead, n)]))
InitSd == \E elems \in ElemLists : Call([fam |-> "sd", elems |-> elems], SdInput(elems))
InitPV == \E w \in Strs(PVAlphabet, MaxPVLen) : Call([fam |-> "pv", w |-> w], PVInput(w))
InitFrac ==
    \E dot \in BOOLEAN, frac \in Strs(FracDigits, MaxFracLen) :
        /\ (~dot => frac = <<>>)
        /\ Call([fam |-> "frac", dot |-> dot, frac |-> frac], FracInput(dot, frac))
InitTrunc ==
    \E b \in 1..Len(BaseMessages) : \E n \in 0..Len(BaseMessages[b]) :
        Call([fam |-> "trunc", b |-> b, n |-> n], SubSeq(BaseMessages[b], 1, n))
InitMut ==
    \E b \in 1..Len(BaseMessages) : \E i \in 1..Len(BaseMessages[b]) :
        \E m \in MutSeqs :
            Call([fam |-> "mut", b |-> b, i |-> i, m |-> m], MutInput(b, i, m))

InitOff ==
    \E w \in 1..Len(WallClocks), sign \in {CH_PLUS, CH_DASH} :
        \E hh \in 0..MaxOffHour, mm \in OffMinutes :
            Call([fam |-> "off", w |-> w, sign |-> sign, hh |-> hh, mm |-> mm],
                 OffInput(w, sign, hh, mm))

InitOffText ==
    \E sign \in {CH_PLUS, CH_DASH}, t \in Strs(OffTextAlphabet, MaxOffTextLen) :
        Call([fam |-> "offtext", sign |-> sign, text |-> t], OffTextInput(sign, t))

InitSdId ==
    \E lead \in {97, 9}, n \in SdIdLens, withParam \in BOOLEAN :
        Call([fam |-> "sdid", lead |-> lead, n |-> n, withParam |-> withParam],
             SdIdInput(lead, n, withParam))

InitVer ==
    \/ \E v \in Strs(VerAlphabet, MaxVerLen) : Call([fam |-> "ver", v |-> v], VerInput(v))
    \/ Call([fam |-> "rfc3164"], Rfc3164Message)

InitProcid ==
    \E t \in ProcidTokens :
        Call([fam |-> "procid", t |-> t], TermInput([Dashes EXCEPT ![3] = t]))

InitSteps ==
    \E F \in SUBSET (1..Len(Steps)) :
        Call([fam |-> "steps", F |-> F], StepsInput(F))

Init ==
    \/ InitPri \/ InitTerm \/ InitLong \/ InitSd
    \/ InitPV \/ InitFrac \/ InitTrunc \/ InitMut \/ InitOff \/ InitVer \/ InitProcid \/ InitSteps \/ InitOffText \/ InitSdId

Spec == Init /\ [][Next]_vars

---------------------------------------------------------------------------
(* The container used directly: any sequence of insert_tuple calls.        *)
Insert ==
    /\ pc = "api"
    /\ Len(hist) < MaxInserts
    /\ \E id \in SdIds, k \in SdNames, v \in SdValues :
          /\ sdc' = insert_tuple(sdc, id, k, v)
          /\ hist' = Append(hist, <<id, k, v>>)
    /\ UNCHANGED <<input, gen, rest, pc, loc, at, ret>>

InitApi ==
    /\ input = <<>>
    /\ gen = [fam |-> "api"]
    /\ rest = <<>>
    /\ pc = "api"
    /\ loc = Loc0
    /\ at = [f \in Fields |-> 0 - 1]
    /\ ret = <<"Pending">>
    /\ sdc = EmptyMap
    /\ hist = <<>>

SpecApi == InitApi /\ [][Insert]_vars


---------------------------------------------------------------------------
(* The properties.                                                         *)
Terminal == pc \in {"done", "err", "panic"}
Returned == ret[2]

(* C1: whatever the input, parse_message returns a SyslogMessage or a      *)
(* ParseErr; no input makes it panic, not even one cut inside the          *)
(* timestamp's UTC offset.                                                 *)
C1_NeverPanics == pc # "panic" /\ ret # <<"Panic">>

(* C2: for every facility code f in 0..23 and severity code s in 0..7,     *)
(* parsing "<f*8+s>1 - - - - - -" succeeds, and the record's facility has  *)
(* code f and its severity code s.                                         *)
C2_PriRoundTrip ==
    (gen.fam = "pri" /\ gen.p \div 8 <= 23) =>
        /\ pc \notin {"err", "panic"}
        /\ pc = "done" =>
              /\ ret[1] = "Ok"
              /\ Discriminant(SyslogFacility, Returned.facility) = gen.p \div 8
              /\ Discriminant(SyslogSeverity, Returned.severity) = gen.p % 8
C2_Witness ==
    /\ gen.fam = "pri" /\ gen.p = 191 /\ pc = "done"
    /\ Returned.facility = "LOG_LOCAL7" /\ Returned.severity = "SEV_DEBUG"

---------------------------------------------------------------------------
(* The wire text of a term field: the sentinel test on the input at the    *)
(* field's offset, and the run of printable bytes that starts there.       *)
FieldNames == <<"hostname", "appname", "procid", "msgid">>
IsSentinelAt(a) ==
    /\ a < Len(input)
    /\ input[a + 1] = CH_DASH
    /\ (a + 1 = Len(input) \/ input[a + 2] = CH_SP)
WireText(a) ==
    LET ends == {i \in a..Len(input) : i = Len(input) \/ ~IsPrintable(input[i + 1])}
    IN  Slice(input, a, SetMin(ends))
(* The token as the record holds it: a procid is classified. *)
Literal(f, t) == IF f = "procid" THEN ProcIdOf(Some(t)) ELSE Some(t)
(* The token as parse_term returned it. *)
Token(f) == IF f = "procid" THEN loc.procid_r ELSE Returned[f]

C5_TokenBounds ==
    pc = "done" =>
        \A i \in 1..4 :
            IsSome(Token(FieldNames[i])) =>
                LET t == Unwrap(Token(FieldNames[i]))
                IN  /\ Len(t) >= 1
                    /\ \A j \in 1..Len(t) : t[j] >= PRINT_LO /\ t[j] <= PRINT_HI
                    /\ Len(t) <= FieldMax[i]
C5_Witness ==
    /\ pc = "done"
    /\ gen.fam = "long"
    /\ \E i \in 1..4 :
          /\ gen.i = i
          /\ IsSome(Token(FieldNames[i]))
          /\ Len(Unwrap(Token(FieldNames[i]))) = FieldMax[i]

(* C6 as stated: a hostname of 256 printable characters fails with         *)
(* TooManyDigits.                                                          *)
C6_TooManyDigitsAt256 ==
    (gen.fam = "long" /\ gen.i = 1 /\ gen.n = HOSTNAME_MAX + 1 /\ Terminal) =>
        ret = <<"Err", ErrK("TooManyDigits")>>
(* C6, amended: a message whose hostname is exactly 255 printable          *)
(* characters parses with that hostname; with a hostname of more than 255  *)
(* printable characters it fails with ExpectedTokenErr(' '): parse_term    *)
(* returns the first 255 characters and the 256th stands where the         *)
(* separator space is expected.                                            *)
C6_HostnameLimit ==
    (gen.fam = "long" /\ gen.i = 1 /\ Terminal) =>
        IF gen.n <= HOSTNAME_MAX
        THEN /\ pc = "done"
             /\ Returned.hostname = Some(LongTerm(gen.lead, gen.n))
        ELSE ret = <<"Err", ExpectedTokenErr(CH_SP)>>
C6_Witness ==
    /\ gen.fam = "long" /\ gen.i = 1 /\ gen.n = HOSTNAME_MAX /\ pc = "done"
    /\ Len(Unwrap(Returned.hostname)) = HOSTNAME_MAX

---------------------------------------------------------------------------
(* The last insert_tuple of hist for a pair, if any. *)
InsertsOf(id, k) == {i \in 1..Len(hist) : hist[i][1] = id /\ hist[i][2] = k}
SetMax(S) == CHOOSE i \in S : \A j \in S : j <= i

(* C7: after any sequence of insert_tuple calls, find_tuple(id, k) is the  *)
(* value of the most recent insert for the pair (id, k), whatever was      *)
(* inserted for other pairs before or after, and None for a pair never     *)
(* inserted.                                                               *)
C7_LastWriteWins ==
    \A id \in SdIds, k \in SdNames :
        find_tuple(sdc, id, k) =
            IF InsertsOf(id, k) = {} THEN None
            ELSE Some(hist[SetMax(InsertsOf(id, k))][3])
C7_Witness ==
    /\ Len(hist) = 3
    /\ hist[1][1] = hist[3][1] /\ hist[1][2] = hist[3][2] /\ hist[1][3] # hist[3][3]
    /\ hist[2][1] = hist[1][1] /\ hist[2][2] # hist[1][2]
    /\ find_tuple(sdc, hist[3][1], hist[3][2]) = Some(hist[3][3])
    /\ find_tuple(sdc, hist[2][1], hist[2][2]) = Some(hist[2][3])

(* The elements of gen.elems with a given SD-ID, the names they carry and  *)
(* the place of the last occurrence of a name among them.                  *)
ElemsOf(id) == {e \in 1..Len(gen.elems) : gen.elems[e][1] = id}
PlacesOf(id, name) ==
    {pl \in ElemsOf(id) \X (1..MaxParams) :
        pl[2] <= Len(gen.elems[pl[1]][2]) /\ gen.elems[pl[1]][2][pl[2]] = name}
LastPlace(id, name) ==
    CHOOSE pl \in PlacesOf(id, name) :
        \A q \in PlacesOf(id, name) :
            q[1] < pl[1] \/ (q[1] = pl[1] /\ q[2] <= pl[2])
NamesOf(id) == {name \in SdNames : PlacesOf(id, name) # {}}
UnionOf(id) ==
    [name \in NamesOf(id) |->
        ValueAt(LastPlace(id, name)[1], LastPlace(id, name)[2])]

(* C8: when several elements of one message carry the same SD-ID their     *)
(* parameters are merged into one entry: sd.len() is the number of         *)
(* distinct SD-IDs that carry parameters, and find_sdid(id) is the union   *)
(* of the parameters of all elements with that id (None when no element    *)
(* with that id carries a parameter).                                      *)
C8_SameIdMerged ==
    gen.fam = "sd" =>
        /\ pc \notin {"err", "panic"}
        /\ pc = "done" =>
              /\ sd_len(Returned.sd) =
                     Cardinality({id \in SdIds : NamesOf(id) # {}})
              /\ \A id \in SdIds :
                     find_sdid(Returned.sd, id) =
                         IF NamesOf(id) = {} THEN None ELSE Some(UnionOf(id))
C8_Witness ==
    /\ gen.fam = "sd" /\ pc = "done"
    /\ gen.elems = <<(<<(<<97>>), <<(<<107>>)>>>>), (<<(<<97>>), <<(<<106>>)>>>>)>>
    /\ sd_len(Returned.sd) = 1
    /\ DOMAIN Unwrap(find_sdid(Returned.sd, <<97>>)) = SdNames

---------------------------------------------------------------------------
(* The text after the opening quote of the value under test, read          *)
(* without the parser: a character is escaped when the run of backslashes  *)
(* just before it has odd length, and an escaping backslash is a           *)
(* backslash that is not itself escaped.                                   *)
QuotedText == gen.w \o PVTail
BackslashRun(t, i) ==
    LET starts == {j \in 1..i : \A x \in j..(i - 1) : t[x] = CH_BACKSLASH}
    IN  i - SetMin(starts)
IsEscaped(t, i) == BackslashRun(t, i) % 2 = 1
ClosingQuote(t) ==
    SetMin({i \in 1..Len(t) : t[i] = CH_QUOTE /\ ~IsEscaped(t, i)})
KeptPlaces(t) ==
    {i \in 1..(ClosingQuote(t) - 1) : ~(t[i] = CH_BACKSLASH /\ ~IsEscaped(t, i))}
Unescaped(t) ==
    [n \in 1..Cardinality(KeptPlaces(t)) |->
        t[CHOOSE i \in KeptPlaces(t) :
              Cardinality({x \in KeptPlaces(t) : x <= i}) = n]]

(* C9: a quoted value ends at the first double quote not preceded by an    *)
(* unconsumed backslash; the value returned is the text before it with     *)
(* every escaping backslash removed and the character after it kept, all   *)
(* other characters unchanged, whether or not the value held an escape;    *)
(* parsing goes on right after the closing quote.                          *)
C9_Unescape ==
    gen.fam = "pv" =>
        /\ pc \in {"err", "panic"} => Len(loc.params) >= 1
        /\ (pc = "sdp" /\ Len(loc.params) = 1) =>
              /\ loc.params[1] = <<(<<107>>), Unescaped(QuotedText)>>
              /\ rest = SubSeq(QuotedText, ClosingQuote(QuotedText) + 1,
                               Len(QuotedText))
        /\ pc = "done" =>
              find_tuple(Returned.sd, <<105>>, <<107>>) = Some(Unescaped(QuotedText))
C9_Witness ==
    /\ gen.fam = "pv" /\ pc = "done"
    /\ gen.w = <<97, CH_BACKSLASH, CH_QUOTE, 97>>
    /\ find_tuple(Returned.sd, <<105>>, <<107>>) = Some(<<97, CH_QUOTE, 97>>)

---------------------------------------------------------------------------
(* sum of digit * 10^(9 - place): the fraction read positionally *)
RECURSIVE Pow10(_)
Pow10(n) == IF n = 0 THEN 1 ELSE 10 * Pow10(n - 1)
RECURSIVE NanosOf(_, _)
NanosOf(frac, i) ==
    IF i > Len(frac) THEN 0
    ELSE (frac[i] - CH_0) * Pow10(9 - i) + NanosOf(frac, i + 1)

(* C10: a fraction of n digits (1 <= n <= 6) of value v yields             *)
(* timestamp_nanos = v * 10^(9-n), a timestamp without fraction yields 0;  *)
(* in every successful parse 0 <= timestamp_nanos < 1000000000, and the    *)
(* multiplication in parse_decimal never leaves 32 bits.                   *)
C10_FractionNanos ==
    /\ (gen.fam = "frac" /\ Len(gen.frac) <= FRAC_MAX /\ (gen.dot => gen.frac # <<>>)) =>
          /\ pc \notin {"err", "panic"}
          /\ pc = "done" =>
                /\ Returned.timestamp_nanos = Some(NanosOf(gen.frac, 1))
                /\ Returned.timestamp = Some([days |-> 5580, sod |-> 84050])
    /\ (pc = "done" /\ IsSome(Returned.timestamp_nanos)) =>
          /\ Unwrap(Returned.timestamp_nanos) >= 0
          /\ Unwrap(Returned.timestamp_nanos) < 1000000000
    /\ (pc = "ts_frac" /\ starts_with(rest, CH_DOT)) =>
          ~parse_decimal(From(rest, 1), 1, FRAC_MAX).ovf
C10_Witness ==
    /\ gen.fam = "frac" /\ pc = "done"
    /\ gen.frac = <<48, 48, 48, 48, 48, 51>>
    /\ Returned.timestamp_nanos = Some(3000)

---------------------------------------------------------------------------
(* C11: a timestamp with more than 6 fractional digits is rejected:        *)
(* parse_message returns an error (InvalidUTCOffset, the seventh digit     *)
(* standing where the offset is expected), never a record.                 *)
C11_LongFractionRejected ==
    (gen.fam = "frac" /\ gen.dot /\ Len(gen.frac) > FRAC_MAX) =>
        /\ pc \notin {"done", "panic", "sp_timestamp"}
        /\ Terminal => ret = <<"Err", ErrK("InvalidUTCOffset")>>
C11_Witness ==
    /\ gen.fam = "frac" /\ gen.dot /\ Len(gen.frac) = FRAC_MAX + 1
    /\ pc = "err" /\ ret = <<"Err", ErrK("InvalidUTCOffset")>>

---------------------------------------------------------------------------
(* A timestamp moved by d seconds. *)
Shift(z, d) ==
    [days |-> z.days + ((z.sod + d) \div 86400), sod |-> (z.sod + d) % 86400]
AheadOfUtc == IF gen.sign = CH_PLUS THEN 1 ELSE 0 - 1

(* C12: with an offset sHH:MM the parsed timestamp is the timestamp of     *)
(* the same wall-clock fields written with Z, minus s * (HH * 3600 +       *)
(* MM * 60) seconds, '+' meaning ahead of UTC; so texts that denote the    *)
(* same instant yield equal timestamps.                                    *)
C12_OffsetToUtc ==
    gen.fam = "off" =>
        /\ pc \notin {"err", "panic"}
        /\ pc = "done" =>
              Returned.timestamp =
                  Some(Shift([days |-> WallClocks[gen.w].days,
                              sod |-> WallClocks[gen.w].sod],
                             0 - AheadOfUtc * (gen.hh * 3600 + gen.mm * 60)))
C12_Witness ==
    /\ gen.fam = "off" /\ pc = "done"
    /\ gen.w = 4 /\ gen.sign = CH_PLUS /\ gen.hh = 5 /\ gen.mm = 45
    /\ Returned.timestamp = Some([days |-> 17915, sod |-> 68499])

---------------------------------------------------------------------------
(* The place of the separator space before the structured data: no field  *)
(* before it holds a space, so it is the sixth space of the message.       *)
SpacesUpTo(m, i) == Cardinality({j \in 1..i : m[j] = CH_SP})
SdSpace(m) == SetMin({i \in 1..Len(m) : SpacesUpTo(m, i) = 6})

(* C13: parsing a proper prefix of a valid message that ends before the    *)
(* separator space preceding the structured data fails with                *)
(* UnexpectedEndOfInput.                                                   *)
C13_PrefixEndOfInput ==
    (gen.fam = "trunc" /\ gen.n < SdSpace(BaseMessages[gen.b]) /\ Terminal) =>
        ret = <<"Err", ErrK("UnexpectedEndOfInput")>>

---------------------------------------------------------------------------
(* The input read without the parser: the first '>' is followed by one or  *)
(* two decimal digits and a space.                                         *)
FirstGt == SetMin({i \in 1..Len(input) : input[i] = CH_GT})
DigitAt(i) == i <= Len(input) /\ input[i] >= CH_0 /\ input[i] <= CH_9
SpaceAt(i) == i <= Len(input) /\ input[i] = CH_SP
VersionFollows ==
    /\ \E i \in 1..Len(input) : input[i] = CH_GT
    /\ DigitAt(FirstGt + 1)
    /\ (SpaceAt(FirstGt + 2) \/ (DigitAt(FirstGt + 2) /\ SpaceAt(FirstGt + 3)))

(* C14: an input in which the closing '>' of the priority is not           *)
(* immediately followed by a 1-2 digit version and a space, such as the    *)
(* RFC 3164 message of test_bad_match, yields an error: the parse never    *)
(* gets past the version's space.                                          *)
C14_VersionRequired ==
    ~VersionFollows =>
        pc \in {"lt", "prival", "gt", "pri_val", "version", "sp_version", "err"}
C14_Witness ==
    /\ gen.fam = "rfc3164"
    /\ ret = <<"Err", ErrK("TooFewDigits")>>
    /\ loc.prival = 134

---------------------------------------------------------------------------
AllDigits(t) == \A j \in 1..Len(t) : t[j] >= CH_0 /\ t[j] <= CH_9

(* C15: a present process-id token is ProcId::PID exactly when it          *)
(* consists entirely of decimal digits; every other token, such as one     *)
(* with a sign, is ProcId::Name holding the token text unchanged.          *)
C15_PidIffDigits ==
    (pc = "done" /\ IsSome(loc.procid_r)) =>
        /\ IsSome(Returned.procid)
        /\ (Unwrap(Returned.procid)[1] = "PID") <=> AllDigits(Unwrap(loc.procid_r))
        /\ ~AllDigits(Unwrap(loc.procid_r)) =>
              Returned.procid = Some(<<"Name", Unwrap(loc.procid_r)>>)

---------------------------------------------------------------------------
(* The conversions used directly: try_from on an integer, then as_str on   *)
(* the enumerant it returned.                                              *)
ConvInts == ((0 - MaxConvInt)..MaxConvInt) \cup {I32_MAX, 0 - I32_MAX - 1}

FacilityTryFrom ==
    /\ pc = "conv"
    /\ gen.which = "facility"
    /\ ret' = IF IsSome(facility_from_int(gen.i))
              THEN <<"Ok", [e |-> Unwrap(facility_from_int(gen.i)),
                            name |-> as_str(FacilityStrs, Unwrap(facility_from_int(gen.i)))]>>
              ELSE <<"Err", ErrK("InvalidInteger")>>
    /\ pc' = "conv_done"
    /\ UNCHANGED <<input, gen, rest, loc, at, sdc, hist>>

SeverityTryFrom ==
    /\ pc = "conv"
    /\ gen.which = "severity"
    /\ ret' = IF IsSome(severity_from_int(gen.i))
              THEN <<"Ok", [e |-> Unwrap(severity_from_int(gen.i)),
                            name |-> as_str(SeverityStrs, Unwrap(severity_from_int(gen.i)))]>>
              ELSE <<"Err", ErrK("InvalidInteger")>>
    /\ pc' = "conv_done"
    /\ UNCHANGED <<input, gen, rest, loc, at, sdc, hist>>

InitConv ==
    \E which \in {"facility", "severity"}, i \in ConvInts :
        /\ input = <<>>
        /\ gen = [fam |-> "conv", which |-> which, i |-> i]
        /\ rest = <<>>
        /\ pc = "conv"
        /\ loc = Loc0
        /\ at = [f \in Fields |-> 0 - 1]
        /\ ret = <<"Pending">>
        /\ sdc = EmptyMap
        /\ hist = <<>>

SpecConv == InitConv /\ [][FacilityTryFrom \/ SeverityTryFrom]_vars

(* C16: SyslogFacility::try_from(i) succeeds iff 0 <= i <= 23 and          *)
(* SyslogSeverity::try_from(i) iff 0 <= i <= 7; the enumerant returned     *)
(* has discriminant i; every other integer is an error, never clamped;     *)
(* as_str gives distinct enumerants distinct names.                        *)
C16_ExactConversions ==
    /\ pc = "conv_done" =>
          /\ (ret[1] = "Ok") <=>
                (gen.i >= 0 /\ gen.i <= (IF gen.which = "facility" THEN 23 ELSE 7))
          /\ ret[1] # "Ok" => ret = <<"Err", ErrK("InvalidInteger")>>
          /\ ret[1] = "Ok" =>
                Discriminant(IF gen.which = "facility"
                             THEN SyslogFacility ELSE SyslogSeverity,
                             Returned.e) = gen.i
    /\ \A a, b \in FacilityStrs : a[2] = b[2] => a[1] = b[1]
    /\ \A a, b \in SeverityStrs : a[2] = b[2] => a[1] = b[1]
    /\ {a[1] : a \in FacilityStrs} = {SyslogFacility[j] : j \in 1..Len(SyslogFacility)}
    /\ {a[1] : a \in SeverityStrs} = {SyslogSeverity[j] : j \in 1..Len(SyslogSeverity)}
C16_Witness ==
    /\ pc = "conv_done" /\ gen.which = "facility" /\ gen.i = 23
    /\ ret = <<"Ok", [e |-> "LOG_LOCAL7", name |-> "local7"]>>

---------------------------------------------------------------------------
(* C17: after the structured data at most one space is removed and the     *)
(* message body is the whole remaining suffix of the input, unchanged      *)
(* (possibly empty, a second leading space kept): what was consumed, the   *)
(* optional space and msg concatenate back to the input.                   *)
C17_BodyVerbatim ==
    [][pc = "msg" =>
         /\ pc' = "done"
         /\ ret'[1] = "Ok"
         /\ input = SubSeq(input, 1, Len(input) - Len(rest)) \o rest
         /\ IF starts_with(rest, CH_SP)
            THEN rest = <<CH_SP>> \o ret'[2].msg
            ELSE rest = ret'[2].msg]_vars
C17_Witness ==
    /\ pc = "done" /\ gen.fam = "mut"
    /\ Len(Returned.msg) > 1 /\ Returned.msg[1] = CH_SP
    /\ IsSome(find_sdid(Returned.sd, <<109, 101, 116, 97>>))

---------------------------------------------------------------------------
(* The leftmost malformed step of the input and the offset in the input    *)
(* at which it fails.                                                      *)
Leftmost == SetMin(gen.F)
RECURSIVE LenBefore(_)
LenBefore(i) == IF i = 1 THEN 0 ELSE LenBefore(i - 1) + Len(Steps[i - 1].good)

(* C18: when several steps of one input are malformed, parse_message       *)
(* returns the error of the leftmost failing step, in the order PRI,       *)
(* version, timestamp, hostname, appname, procid, msgid, structured data;  *)
(* nothing is consumed and no step is executed after the first failure,    *)
(* and a record is returned only by a parse in which no step failed.       *)
C18_LeftmostError ==
    /\ gen.fam = "steps" =>
          IF gen.F = {}
          THEN pc \notin {"err", "panic"}
          ELSE /\ pc \notin {"done", "panic"}
               /\ pc = "err" =>
                     /\ ret = <<"Err", Steps[Leftmost].err>>
                     /\ Len(input) - Len(rest) = LenBefore(Leftmost) + Steps[Leftmost].off
    /\ ret[1] = "Ok" => pc = "done"
    /\ pc = "err" => ret[1] = "Err"
    /\ pc \in {"err", "panic"} => ~ENABLED Next
    /\ pc \notin {"done", "err", "panic"} => ret = <<"Pending">>
C18_Witness ==
    /\ gen.fam = "steps" /\ gen.F = {2, 5, 8}
    /\ ret = <<"Err", ExpectedTokenErr(CH_SP)>>
    /\ Len(input) - Len(rest) = 5

---------------------------------------------------------------------------
(* The exact form of an offset after its sign: two digits, ':', two digits. *)
ExactForm(t) ==
    /\ Len(t) = 5
    /\ \A i \in {1, 2, 4, 5} : IsDigit(t[i])
    /\ t[3] = CH_COLON

(* C19: an offset text after the sign that is not two decimal digits, ':'  *)
(* and two decimal digits (a field that is not two digits, a separator     *)
(* other than ':', an embedded sign) makes parse_message return an error.  *)
C19_OffsetExactForm ==
    (gen.fam = "offtext" /\ ~ExactForm(gen.text) /\ Terminal) => ret[1] = "Err"

---------------------------------------------------------------------------
(* parse_num used directly, with the digit bounds of its call sites        *)
(* (PRI 1..3, version 1..2, year 4..4, the other date and time fields      *)
(* 2..2), on texts of digits and one other character.                      *)
NumAlphabet == {48, 57, 120}
NumBoundsOf == {<<1, 3>>, <<1, 2>>, <<4, 4>>, <<2, 2>>}

ParseNum ==
    /\ pc = "num"
    /\ \E r \in {parse_num(input, gen.min, gen.max)} :
          ret' = IF r.ok THEN <<"Ok", [v |-> r.v, rest |-> r.rest]>>
                 ELSE <<"Err", r.err>>
    /\ pc' = "num_done"
    /\ UNCHANGED <<input, gen, rest, loc, at, sdc, hist>>

InitNum ==
    \E s \in Strs(NumAlphabet, MaxNumLen), b \in NumBoundsOf :
        /\ input = s
        /\ gen = [fam |-> "num", min |-> b[1], max |-> b[2]]
        /\ rest = s
        /\ pc = "num"
        /\ loc = Loc0
        /\ at = [f \in Fields |-> 0 - 1]
        /\ ret = <<"Pending">>
        /\ sdc = EmptyMap
        /\ hist = <<>>

SpecNum == InitNum /\ [][ParseNum]_vars

(* The number of digits at the start of a text. *)
LeadingDigits(s) == Cardinality({i \in 1..Len(s) : \A j \in 1..i : IsDigit(s[j])})

(* C20: parse_num(s, min, max) fails with TooFewDigits when s starts with  *)
(* fewer than min digits, with TooManyDigits when it starts with more than *)
(* max digits, and with an error of another kind than these two when s     *)
(* does not start with a digit.                                            *)
C20_DistinctKinds ==
    pc = "num_done" =>
        /\ (Len(input) > 0 /\ LeadingDigits(input) = 0) =>
              /\ ret[1] = "Err"
              /\ ret[2].kind \notin {"TooFewDigits", "TooManyDigits"}
        /\ (0 < LeadingDigits(input) /\ LeadingDigits(input) < gen.min) =>
              ret = <<"Err", ErrK("TooFewDigits")>>
        /\ LeadingDigits(input) > gen.max =>
              ret = <<"Err", ErrK("TooManyDigits")>>

---------------------------------------------------------------------------
(* C21: an element whose identifier is empty or longer than 32 characters  *)
(* makes parse_message return an error.                                    *)
C21_SdIdLimit ==
    (gen.fam = "sdid" /\ (gen.n = 0 \/ gen.n > 32) /\ Terminal) => ret[1] = "Err"

---------------------------------------------------------------------------
(* A test message with the byte after a "]" replaced by a character that   *)
(* is neither "[" nor a space.                                             *)
AfterElements ==
    /\ gen.fam = "mut"
    /\ gen.i > 1
    /\ BaseMessages[gen.b][gen.i - 1] = CH_RBRACK
    /\ gen.m # <<>>
    /\ gen.m[1] \notin {CH_LBRACK, CH_SP}

---------------------------------------------------------------------------
(* The lines of parse_message_s and of the functions it calls, in program  *)
(* order; the two loops go back from "sdp_value" to "sdp" and from         *)
(* "sde_close" to "sde_open".                                              *)
ProgramOrder ==
    <<"lt", "prival", "gt", "pri_val", "version", "sp_version",
      "timestamp", "ts_year", "ts_dash1", "ts_mon", "ts_dash2", "ts_mday",
      "ts_t", "ts_hour", "ts_colon1", "ts_min", "ts_colon2", "ts_sec",
      "ts_frac", "ts_off", "sp_timestamp",
      "hostname", "sp_hostname", "appname", "sp_appname",
      "procid", "sp_procid", "msgid", "sp_msgid",
      "sd", "sde_open", "sde_id", "sdp", "sdp_name", "sdp_eq", "sdp_value",
      "sde_close", "msg", "done", "err", "panic">>
Rank(p) == CHOOSE i \in 1..Len(ProgramOrder) : ProgramOrder[i] = p
IsSuffix(t, s) == Len(t) <= Len(s) /\ t = From(s, Len(s) - Len(t))

(* Every step leaves a suffix of the remaining input, and a step that does *)
(* not move forward in program order (a further iteration of a loop)       *)
(* consumes at least one character.                                        *)
StepConsumes ==
    /\ IsSuffix(rest', rest)
    /\ Rank(pc') > Rank(pc) \/ Len(rest') < Len(rest)
(* A call that has ended returned Ok or returned Err. *)
EndsInOkOrErr ==
    Terminal => \/ pc = "done" /\ ret[1] = "Ok"
                \/ pc = "err" /\ ret[1] = "Err"

(* C23: parse_message terminates on every input: the remaining input after *)
(* each step is a suffix of the remaining input before it, every further   *)
(* iteration of a loop consumes at least one character, and the call ends  *)
(* in exactly one of success or error.                                     *)
C23_Terminates == [][StepConsumes /\ EndsInOkOrErr']_vars

---------------------------------------------------------------------------
(* The offset of the timestamp field in the input: right after the first   *)
(* space, which in a message that parses is the one after the version.     *)
TimestampAt == SetMin({i \in 1..Len(input) : input[i] = CH_SP})
TimestampIsSentinel ==
    /\ TimestampAt + 2 <= Len(input)
    /\ input[TimestampAt + 1] = CH_DASH
    /\ input[TimestampAt + 2] = CH_SP

(* C24: in every successfully parsed message timestamp is None exactly     *)
(* when timestamp_nanos is None, and both are None exactly when the        *)
(* timestamp field on the wire is the null sentinel '-'.                   *)
C24_TimestampBothOrNeither ==
    pc = "done" =>
        /\ (Returned.timestamp = None) <=> (Returned.timestamp_nanos = None)
        /\ (Returned.timestamp = None) <=> TimestampIsSentinel
C24_Witness ==
    /\ pc = "done"
    /\ gen.fam = "mut"
    /\ TimestampIsSentinel
    /\ IsSome(Returned.hostname)
    /\ Returned.timestamp = None
    /\ Returned.timestamp_nanos = None

---------------------------------------------------------------------------
(* The input has an element with the id and at least one parameter. *)
HasParamElem(id) ==
    \E e \in 1..Len(gen.elems) : gen.elems[e][1] = id /\ Len(gen.elems[e][2]) >= 1

(* C25: after a successful parse the container has an entry for an SD-ID   *)
(* exactly when the input has an element with that id and at least one     *)
(* parameter; an element without parameters, such as [id], is accepted     *)
(* and adds nothing: find_sdid does not find its id and len does not       *)
(* count it.                                                               *)
C25_EntryIffParameter ==
    /\ gen.fam = "sd" =>
          /\ pc \notin {"err", "panic"}
          /\ pc = "done" =>
                /\ \A id \in SdIds :
                       IsSome(find_sdid(Returned.sd, id)) <=> HasParamElem(id)
                /\ sd_len(Returned.sd) = Cardinality({id \in SdIds : HasParamElem(id)})
    /\ (gen.fam = "sdid" /\ gen.n <= SD_ID_MAX) =>
          /\ pc \notin {"err", "panic"}
          /\ pc = "done" =>
                /\ IsSome(find_sdid(Returned.sd, SdIdText(gen.lead, gen.n)))
                       <=> gen.withParam
                /\ sd_len(Returned.sd) = IF gen.withParam THEN 1 ELSE 0
C25_Witness ==
    /\ gen.fam = "sd" /\ pc = "done"
    /\ gen.elems = <<(<<(<<97>>), <<>>>>), (<<(<<98>>), <<(<<107>>)>>>>)>>
    /\ find_sdid(Returned.sd, <<97>>) = None
    /\ IsSome(find_sdid(Returned.sd, <<98>>))
    /\ sd_len(Returned.sd) = 1

=============================================================================
